---- MODULE Spec2Model ----
(***************************************************************************)
(* Model of cardgen.py: the grid coordinate mapper, the box and wrapped    *)
(* text primitives, the colour gradient, the card layout and the start-up  *)
(* sequence of the command line program.                                   *)
(*                                                                         *)
(* Lengths (grid coordinates, pixels, growth, text widths) are fixed-point *)
(* numbers with one binary fractional digit: the integer v stands for v/2. *)
(* This represents exactly the halves the program uses (coordinates -1.5   *)
(* and -0.5, x_grow = 0.5, width / 2).  Canvas sizes, grid_size, border    *)
(* widths and colour channels are plain integers, as in the program.       *)
(***************************************************************************)
EXTENDS Integers, Sequences, FiniteSets

VARIABLES pc,         \* position of the __main__ block
          args,       \* parsed command line arguments
          fs,         \* the paths that exist on the file system
          font_path,  \* the font path resolved by __main__
          events,     \* the Card methods that ran, in order
          canvas,     \* the drawing operations applied to Card.im, in order
          inp,        \* arguments of the function under study
          out         \* its result: <<>> before the call, <<result>> after

vars == <<pc, args, fs, font_path, events, canvas, inp, out>>

NONE == "None"

\* an integer as a fixed-point length
Fx(n) == 2 * n

Abs(n) == IF n < 0 THEN -n ELSE n

---------------------------------------------------------------------------
(* Card.__init__ and Card.coordinates2xy                                   *)

grid_size == 30

DefaultSize == <<750, 1050>>

\* Card.grid: the canvas size in whole grid cells
grid(size) == <<size[1] \div grid_size, size[2] \div grid_size>>

\* the axis (1 = x, 2 = y) of the i-th coordinate of a region
Axis(i) == IF i \in {1, 3} THEN 1 ELSE 2

\* mutant: zero is measured from the far edge too
FromFarEdge_strict(v, dim) == IF v > 0 THEN v ELSE dim + v

\* a negative pixel coordinate is measured from the far edge of the image
FromFarEdge(v, dim) == IF v >= 0 THEN v ELSE dim + v

\* mutant: growth is applied before the negative coordinates are resolved
coordinates2xy_growfirst(size, coordinates, x_grow, y_grow) ==
    LET xy0 == [i \in 1..4 |-> coordinates[i] * grid_size]
        xy1 == IF x_grow # 0
               THEN [xy0 EXCEPT ![1] = @ - (x_grow * grid_size),
                                ![3] = @ + (x_grow * grid_size)]
               ELSE xy0
        xy2 == IF y_grow # 0
               THEN [xy1 EXCEPT ![2] = @ - (y_grow * grid_size),
                                ![4] = @ + (y_grow * grid_size)]
               ELSE xy1
    IN  [i \in 1..4 |-> FromFarEdge(xy2[i], Fx(size[Axis(i)]))]

coordinates2xy(size, coordinates, x_grow, y_grow) ==
    LET xy0 == [i \in 1..4 |-> coordinates[i] * grid_size]
        xy1 == [i \in 1..4 |-> FromFarEdge(xy0[i], Fx(size[Axis(i)]))]
        xy2 == IF x_grow # 0
               THEN [xy1 EXCEPT ![1] = @ - (x_grow * grid_size),
                                ![3] = @ + (x_grow * grid_size)]
               ELSE xy1
        xy3 == IF y_grow # 0
               THEN [xy2 EXCEPT ![2] = @ - (y_grow * grid_size),
                                ![4] = @ + (y_grow * grid_size)]
               ELSE xy2
    IN  xy3

\* largest grid coordinate (fixed-point) and growth (fixed-point) drawn
MaxCoord == 3
MaxGrow == 2

\* canvas sizes: the default, one that is no multiple of grid_size, a tiny one
CanvasSizes == {DefaultSize, <<760, 1040>>, <<60, 45>>}

NoArgs == [font |-> NONE, image |-> NONE, head1 |-> <<>>, head2 |-> <<>>,
           text |-> <<>>, stats |-> <<>>]

IdleMain == /\ pc = "idle"
            /\ args = NoArgs
            /\ fs = {}
            /\ font_path = NONE
            /\ events = <<>>
            /\ canvas = <<>>

InitMap == /\ IdleMain
           /\ inp \in [fn : {"coordinates2xy"},
                       size : CanvasSizes,
                       coordinates : [1..4 -> (-MaxCoord)..MaxCoord],
                       x_grow : 0..MaxGrow,
                       y_grow : 0..MaxGrow]
           /\ out = <<>>

CallCoordinates2xy ==
    /\ inp.fn = "coordinates2xy"
    /\ out = <<>>
    /\ out' = <<coordinates2xy(inp.size, inp.coordinates,
                               inp.x_grow, inp.y_grow)>>
    /\ UNCHANGED <<pc, args, fs, font_path, events, canvas, inp>>

NextMap == CallCoordinates2xy

SpecMap == InitMap /\ [][NextMap]_vars

Mapped == inp.fn = "coordinates2xy" /\ out # <<>>

\* the pixel value of grid coordinate c mapped alone, without growth
MapOne(size, i, c) ==
    coordinates2xy(size, [j \in 1..4 |-> IF j = i THEN c ELSE 0], 0, 0)[i]

\* the contribution of growth to the i-th coordinate
GrowthOf(i, x_grow, y_grow) ==
    CASE i = 1 -> -(x_grow * grid_size)
      [] i = 3 -> x_grow * grid_size
      [] i = 2 -> -(y_grow * grid_size)
      [] i = 4 -> y_grow * grid_size

\* C5 as stated: on every canvas size a negative coordinate c maps like the
\* non-negative coordinate D + c (D the axis size in grid cells), a
\* non-negative coordinate maps to c * grid_size, and each coordinate is
\* resolved independently of the other three.
C5_NegativeLikeGridPlusC ==
    Mapped =>
        \A i \in 1..4 :
            LET c == inp.coordinates[i]
                D == Fx(grid(inp.size)[Axis(i)])
                resolved == out[1][i] - GrowthOf(i, inp.x_grow, inp.y_grow)
            IN  /\ (c < 0 /\ D + c >= 0) => resolved = MapOne(inp.size, i, D + c)
                /\ c >= 0 => resolved = c * grid_size
                /\ resolved = MapOne(inp.size, i, c)

WholeGrid(size, a) == size[a] % grid_size = 0

\* C5 as amended: the same, for a negative coordinate on an axis whose pixel
\* size is a whole multiple of grid_size (as on the default canvas).
C5_Amended ==
    Mapped =>
        \A i \in 1..4 :
            LET c == inp.coordinates[i]
                D == Fx(grid(inp.size)[Axis(i)])
                resolved == out[1][i] - GrowthOf(i, inp.x_grow, inp.y_grow)
            IN  /\ (c < 0 /\ D + c >= 0 /\ WholeGrid(inp.size, Axis(i)))
                      => resolved = MapOne(inp.size, i, D + c)
                /\ c >= 0 => resolved = c * grid_size
                /\ resolved = MapOne(inp.size, i, c)

C5_Witness ==
    /\ Mapped
    /\ inp.size = DefaultSize
    /\ inp.coordinates = <<1, 2, -3, -1>>
    /\ out[1][3] = Fx(750) - 3 * grid_size
    /\ out[1][4] = Fx(1050) - grid_size

\* C6: growth is additive and symmetric and applied after the negative
\* coordinates are resolved: the result is the result without growth with
\* left/right moved out by x_grow * grid_size and top/bottom by
\* y_grow * grid_size, also when that pushes a coordinate below zero.
C6_GrowthAdditive ==
    Mapped =>
        LET xy0 == coordinates2xy(inp.size, inp.coordinates, 0, 0)
        IN  /\ out[1][1] = xy0[1] - inp.x_grow * grid_size
            /\ out[1][3] = xy0[3] + inp.x_grow * grid_size
            /\ out[1][2] = xy0[2] - inp.y_grow * grid_size
            /\ out[1][4] = xy0[4] + inp.y_grow * grid_size
            /\ \A i \in 1..4 :
                   xy0[i] = FromFarEdge(inp.coordinates[i] * grid_size,
                                        Fx(inp.size[Axis(i)]))

C6_Witness ==
    /\ Mapped
    /\ inp.coordinates[1] = 0
    /\ inp.x_grow = 1
    /\ inp.y_grow = 0
    /\ out[1][1] = -grid_size
    /\ out[1][2] = inp.coordinates[2] * grid_size

---------------------------------------------------------------------------
(* COLORS and get_color_gradient                                           *)

\* a colour name is the sequence of its characters
COLORS ==
    [white |-> [background |-> <<"#", "0", "0", "0">>,
               main |-> <<"#", "d", "f", "d", "3", "a", "b">>,
               second |-> <<"#", "f", "f", "f", "e", "f", "5">>,
               card |-> <<"#", "f", "f", "f">>],
     blue |-> [background |-> <<"#", "0", "0", "0">>,
               main |-> <<"#", "0", "0", "7", "3", "b", "2">>,
               second |-> <<"#", "8", "3", "c", "e", "f", "1">>,
               card |-> <<"#", "e", "e", "f">>],
     black |-> [background |-> <<"#", "0", "0", "0">>,
               main |-> <<"#", "3", "a", "3", "8", "3", "3">>,
               second |-> <<"#", "5", "2", "5", "3", "4", "7">>,
               card |-> <<"#", "d", "d", "d">>],
     red |-> [background |-> <<"#", "0", "0", "0">>,
               main |-> <<"#", "d", "9", "4", "0", "2", "9">>,
               second |-> <<"#", "e", "5", "a", "3", "8", "d">>,
               card |-> <<"#", "f", "e", "e">>],
     green |-> [background |-> <<"#", "0", "0", "0">>,
               main |-> <<"#", "2", "2", "6", "2", "4", "8">>,
               second |-> <<"#", "b", "c", "d", "0", "c", "7">>,
               card |-> <<"#", "d", "d", "e", "6", "e", "9">>]]

ColorNames == {"white", "blue", "black", "red", "green"}

HexDigits == <<"0", "1", "2", "3", "4", "5", "6", "7",
               "8", "9", "a", "b", "c", "d", "e", "f">>

HexVal(ch) == (CHOOSE k \in 1..16 : HexDigits[k] = ch) - 1

\* ImageColor.getrgb on "#rgb" and "#rrggbb"
getrgb(c) ==
    IF Len(c) = 4
    THEN [k \in 1..3 |-> 17 * HexVal(c[k + 1])]
    ELSE [k \in 1..3 |-> 16 * HexVal(c[2 * k]) + HexVal(c[2 * k + 1])]

\* int(a / b) for b > 0: the quotient truncated toward zero
IntQuot(a, b) == IF a >= 0 THEN a \div b ELSE -((-a) \div b)

\* mutant: the difference is taken the wrong way round
ChannelValue_reversed(v1, v2, count, i) ==
    IntQuot(v1 * count + (v1 - v2) * i, count)

\* int(rgb1[k] + step[k] * i) with step[k] = (rgb2[k] - rgb1[k]) / count,
\* computed exactly
ChannelValue(v1, v2, count, i) ==
    IntQuot(v1 * count + (v2 - v1) * i, count)

\* the list of colours; element i + 1 is the colour of loop index i
get_color_gradient(c1, c2, count) ==
    LET rgb1 == getrgb(c1)
        rgb2 == getrgb(c2)
    IN  [n \in 1..count |->
            [k \in 1..3 |-> Abs(ChannelValue(rgb1[k], rgb2[k], count, n - 1))]]

\* largest count drawn
MaxCount == 6

\* the colours of COLORS and the "#rgb" colours over three digits
GradientColors ==
    {COLORS[n][f] : n \in ColorNames, f \in {"background", "main", "second", "card"}}
    \cup {<<"#", r, g, b>> : r \in {"0", "8", "f"}, g \in {"0", "8", "f"},
                             b \in {"0", "8", "f"}}

InitGradient ==
    /\ IdleMain
    /\ inp \in [fn : {"get_color_gradient"},
                c1 : GradientColors,
                c2 : GradientColors,
                count : 1..MaxCount]
    /\ out = <<>>

CallGetColorGradient ==
    /\ inp.fn = "get_color_gradient"
    /\ out = <<>>
    /\ out' = <<get_color_gradient(inp.c1, inp.c2, inp.count)>>
    /\ UNCHANGED <<pc, args, fs, font_path, events, canvas, inp>>

NextGradient == CallGetColorGradient

SpecGradient == InitGradient /\ [][NextGradient]_vars

Graded == inp.fn = "get_color_gradient" /\ out # <<>>

\* C7: the first colour of the gradient is c1, each channel is monotonic in
\* the direction from c1 to c2, and no channel value is negative before the
\* absolute value is taken.
C7_GradientMonotonic ==
    Graded =>
        LET rgb1 == getrgb(inp.c1)
            rgb2 == getrgb(inp.c2)
            g == out[1]
        IN  /\ Len(g) = inp.count
            /\ g[1] = rgb1
            /\ \A k \in 1..3 :
                /\ \A n \in 1..inp.count :
                       /\ ChannelValue(rgb1[k], rgb2[k], inp.count, n - 1) >= 0
                       /\ g[n][k] = ChannelValue(rgb1[k], rgb2[k], inp.count, n - 1)
                /\ \A n \in 1..(inp.count - 1) :
                       /\ rgb2[k] >= rgb1[k] => g[n][k] <= g[n + 1][k]
                       /\ rgb2[k] <= rgb1[k] => g[n][k] >= g[n + 1][k]

C7_Witness ==
    /\ Graded
    /\ inp.c1 = COLORS["red"]["second"]
    /\ inp.c2 = COLORS["red"]["main"]
    /\ inp.count = 5
    /\ out[1] = <<<<229, 163, 141>>, <<226, 143, 121>>, <<224, 123, 101>>,
                  <<221, 103, 81>>, <<219, 83, 61>>>>

---------------------------------------------------------------------------
(* draw_box                                                                *)

\* an optional argument: <<>> is None, <<v>> is the value v
None == <<>>
Some(v) == <<v>>

\* the truth value Python gives an optional string
Truthy(opt) == opt # None /\ opt[1] # <<>>

\* mutant: the box is only moved, not enlarged
Outset_shifted(xy, width) ==
    <<xy[1] - width, xy[2] - width, xy[3] - width, xy[4] - width>>

\* xy[0] - width / 2, xy[1] - width / 2, xy[2] + width / 2, xy[3] + width / 2;
\* width / 2 pixels is the fixed-point length width
Outset(xy, width) ==
    <<xy[1] - width, xy[2] - width, xy[3] + width, xy[4] + width>>

\* the call draw_box makes to draw.rounded_rectangle; radius is the exact
\* fraction (xy[3] - xy[1]) / 2.3 as <<numerator, denominator>>
draw_box(xy, round, fill, outline, width) ==
    LET xy1 == IF Truthy(outline) THEN Outset(xy, width) ELSE xy
        radius == IF ~round THEN <<0, 1>> ELSE <<10 * (xy1[4] - xy1[2]), 23>>
    IN  [op |-> "rounded_rectangle", xy |-> xy1, radius |-> radius,
         fill |-> fill, outline |-> outline, width |-> width]

\* ImageDraw.rounded_rectangle strokes the outline from the bounds it is
\* given inward, width pixels wide: the outer and the inner edge of the stroke
StrokeOuter(call) == call.xy

StrokeInner(call) ==
    <<call.xy[1] + Fx(call.width), call.xy[2] + Fx(call.width),
      call.xy[3] - Fx(call.width), call.xy[4] - Fx(call.width)>>

\* largest border width, box side (fixed-point) drawn
MaxWidth == 8
MaxSide == 3

BoxOrigins == {0, Fx(60)}

BoxColors == {COLORS["red"]["main"], COLORS["red"]["card"]}

InitBox ==
    /\ IdleMain
    /\ \E x \in BoxOrigins, y \in BoxOrigins, w \in 1..MaxSide, h \in 1..MaxSide :
         inp \in [fn : {"draw_box"},
                  xy : {<<x, y, x + w, y + h>>},
                  round : BOOLEAN,
                  fill : {None} \cup {Some(c) : c \in BoxColors},
                  outline : {None} \cup {Some(c) : c \in BoxColors},
                  width : 1..MaxWidth]
    /\ out = <<>>

CallDrawBox ==
    /\ inp.fn = "draw_box"
    /\ out = <<>>
    /\ out' = <<draw_box(inp.xy, inp.round, inp.fill, inp.outline, inp.width)>>
    /\ UNCHANGED <<pc, args, fs, font_path, events, canvas, inp>>

NextBox == CallDrawBox

SpecBox == InitBox /\ [][NextBox]_vars

Boxed == inp.fn = "draw_box" /\ out # <<>>

---------------------------------------------------------------------------
(* write_text                                                              *)

\* draw.textlength: the fonts of FONTS are monospaced, every character
\* advances by CharW (15 pixels for medium_font)
CharW == 30

textlength(s) == Len(s) * CharW

SPACE == " "
NL == "\n"

\* the word that stands for a line break: a backslash and the letter n
BreakWord == <<"\\", "n">>

RECURSIVE LStrip(_)
LStrip(s) == IF s # <<>> /\ Head(s) = SPACE THEN LStrip(Tail(s)) ELSE s

RECURSIVE RStrip(_)
RStrip(s) ==
    IF s # <<>> /\ s[Len(s)] = SPACE THEN RStrip(SubSeq(s, 1, Len(s) - 1)) ELSE s

\* str.strip()
Strip(s) == RStrip(LStrip(s))

\* str.split(sep): the pieces between the occurrences of sep, empty ones kept
RECURSIVE Split(_, _)
Split(s, sep) ==
    IF s = <<>>
    THEN << <<>> >>
    ELSE LET rest == Split(Tail(s), sep)
         IN  IF Head(s) = sep
             THEN << <<>> >> \o rest
             ELSE << <<Head(s)>> \o rest[1] >> \o Tail(rest)

\* the loop of write_text over the remaining words, and new_text += line
RECURSIVE WrapWords(_, _, _, _, _)
WrapWords(words, box, new_text, line, width) ==
    IF words = <<>>
    THEN new_text \o line
    ELSE LET word == Head(words)
             word_width == textlength(word)
         IN  IF word = BreakWord
             THEN WrapWords(Tail(words), box, new_text \o line \o <<NL>>,
                            <<>>, width)
             ELSE IF width + word_width < box
             THEN LET joined == IF line # <<>>
                                THEN line \o <<SPACE>> \o word
                                ELSE word
                  IN  WrapWords(Tail(words), box, new_text, joined,
                                textlength(joined))
             ELSE WrapWords(Tail(words), box, new_text \o line \o <<NL>>,
                            word, textlength(word))

\* the width of the box after it is inset by the width of "T"
InsetWidth(xy) == (xy[3] - CharW) - (xy[1] + CharW)

\* the call write_text makes to draw.text
write_text(xy, text) ==
    LET m_width == CharW
        words == Split(Strip(text), SPACE)
    IN  [op |-> "text", at |-> <<xy[1] + m_width, xy[2] + m_width>>,
         text |-> WrapWords(words, InsetWidth(xy), <<>>, <<>>, 0)]

\* longest text and widest box (in half characters) drawn
MaxTextLen == 6
MaxBoxHalves == 7

TextChars == {"a", SPACE, "\\", "n"}

Texts == UNION {[1..n -> TextChars] : n \in 0..MaxTextLen}

InitWrap ==
    /\ IdleMain
    /\ \E k \in 1..MaxBoxHalves :
         inp \in [fn : {"write_text"},
                  xy : {<<0, 0, 2 * CharW + k * (CharW \div 2), Fx(240)>>},
                  text : Texts]
    /\ out = <<>>

CallWriteText ==
    /\ inp.fn = "write_text"
    /\ out = <<>>
    /\ out' = <<write_text(inp.xy, inp.text)>>
    /\ UNCHANGED <<pc, args, fs, font_path, events, canvas, inp>>

NextWrap == CallWriteText

SpecWrap == InitWrap /\ [][NextWrap]_vars

Wrapped == inp.fn = "write_text" /\ out # <<>>

\* the lines of a wrapped text and the non-empty words of a line
Lines(s) == Split(s, NL)

WordsOf(line) == SelectSeq(Split(line, SPACE), LAMBDA w : w # <<>>)

\* C2: every output line that holds two or more words is no wider than the
\* inset box.
C2_LinesFitBox ==
    Wrapped =>
        \A n \in 1..Len(Lines(out[1].text)) :
            LET line == Lines(out[1].text)[n]
            IN  Len(WordsOf(line)) >= 2 => textlength(line) <= InsetWidth(inp.xy)

IsWord(w) == w # <<>> /\ w # BreakWord

Wrap(words, box) == WrapWords(words, box, <<>>, <<>>, 0)

\* C3: a break token between two words forces exactly one line break: the
\* lines are those of the words before the token followed by those of the
\* words after it, the word before the token ends its line and the word after
\* it starts the next line, whatever the widths.
C3_BreakForcesOneLineBreak ==
    Wrapped =>
        LET words == Split(Strip(inp.text), SPACE)
            box == InsetWidth(inp.xy)
            L == Lines(out[1].text)
        IN  \A i \in 2..(Len(words) - 1) :
                (words[i] = BreakWord /\ IsWord(words[i - 1]) /\ IsWord(words[i + 1]))
                => LET LA == Lines(Wrap(SubSeq(words, 1, i - 1), box))
                       LB == Lines(Wrap(SubSeq(words, i + 1, Len(words)), box))
                       k == Len(LA)
                   IN  /\ L = LA \o LB
                       /\ WordsOf(L[k]) # <<>>
                       /\ WordsOf(L[k])[Len(WordsOf(L[k]))] = words[i - 1]
                       /\ WordsOf(L[k + 1]) # <<>>
                       /\ WordsOf(L[k + 1])[1] = words[i + 1]

\* the words joined by single spaces
RECURSIVE Join(_)
Join(ws) ==
    IF ws = <<>> THEN <<>>
    ELSE IF Len(ws) = 1 THEN ws[1]
    ELSE ws[1] \o <<SPACE>> \o Join(Tail(ws))

\* the lines a text is written in: its words grouped at the break tokens
RECURSIVE InputLines(_)
InputLines(words) ==
    IF \A i \in 1..Len(words) : words[i] # BreakWord
    THEN <<Join(words)>>
    ELSE LET i == CHOOSE j \in 1..Len(words) :
                      /\ words[j] = BreakWord
                      /\ \A h \in 1..(j - 1) : words[h] # BreakWord
         IN  <<Join(SubSeq(words, 1, i - 1))>>
             \o InputLines(SubSeq(words, i + 1, Len(words)))

\* C4: a text whose lines all fit the box is wrapped into exactly its lines.
C4_WrapIdempotent ==
    Wrapped =>
        LET given == InputLines(Split(Strip(inp.text), SPACE))
        IN  (\A n \in 1..Len(given) : textlength(given[n]) <= InsetWidth(inp.xy))
            => Lines(out[1].text) = given

---------------------------------------------------------------------------
(* paste_image, paste_noisy_rectangle, draw_center_text                    *)

\* the truth value Python gives an optional str kept as a TLA+ string
TruthyStr(opt) == opt # None /\ opt[1] # ""

\* the image is resized to the box and pasted at its top left corner
paste_image(xy, image_path) ==
    [op |-> "paste_image", xy |-> xy, image_path |-> image_path]

\* the noise and the circles take their colours at random from the gradient
\* of five colours; the random draws themselves are not recorded
paste_noisy_rectangle(xy, color1, color2, pixel_size, blur_radius) ==
    [op |-> "paste_noisy_rectangle", xy |-> xy,
     colors |-> get_color_gradient(color1, color2, 5),
     pixel_size |-> pixel_size, blur_radius |-> blur_radius]

\* the text is placed inside xy from the metrics of the font
draw_center_text(xy, text, font, fill, horizontal) ==
    [op |-> "center_text", xy |-> xy, text |-> text, font |-> font,
     fill |-> fill, horizontal |-> horizontal]

---------------------------------------------------------------------------
(* Card.draw_frame, Card.draw_content                                      *)

BLACK == <<"#", "0", "0", "0">>
LIGHTGRAY == <<"#", "c", "c", "c">>

CAPTION == "Might contain traces of cyber"

draw_frame(size, colors) ==
    <<paste_noisy_rectangle(coordinates2xy(size, <<Fx(1), Fx(1), Fx(-1), Fx(-3)>>, 0, 0),
                            colors.second, colors.main, 6, 2)>>

\* mutant: the two layouts of the image are exchanged
ImageCoordinates_swapped(large_image) ==
    IF large_image THEN <<Fx(2), Fx(4), Fx(-2), Fx(23)>>
                   ELSE <<Fx(2), Fx(4), Fx(-2), Fx(-6)>>

ImageCoordinates(large_image) ==
    IF large_image THEN <<Fx(2), Fx(4), Fx(-2), Fx(-6)>>
                   ELSE <<Fx(2), Fx(4), Fx(-2), Fx(23)>>

InfoBarCoordinates(large_image) ==
    IF large_image THEN <<Fx(2), Fx(-6), Fx(-2), Fx(-4)>>
                   ELSE <<Fx(2), Fx(23), Fx(-2), Fx(25)>>

\* mutant: the text is drawn whether or not the field is given
CenterTextIf_always(field, xy, horizontal) ==
    <<draw_center_text(xy, field, "big_font", BLACK, horizontal)>>

\* if head1: / if head2: / if stats: draw_center_text(...)
CenterTextIf(field, xy, horizontal) ==
    IF TruthyStr(field)
    THEN <<draw_center_text(xy, field[1], "big_font", BLACK, horizontal)>>
    ELSE <<>>

\* the drawing operations of draw_content, in order
draw_content(size, colors, image_path, head1, head2, text, stats) ==
    LET large_image == ~Truthy(text)
        image_xy == coordinates2xy(size, ImageCoordinates(large_image), 0, 0)
        image == IF TruthyStr(image_path)
                 THEN <<paste_image(image_xy, image_path[1])>>
                 ELSE <<paste_noisy_rectangle(image_xy, colors.second,
                                              colors.main, 30, 1)>>
        image_box == <<draw_box(image_xy, FALSE, None, Some(colors.main), 8)>>
        bottom == <<Fx(2), Fx(25), Fx(-2), Fx(-2)>>
        bottom_box ==
            IF ~large_image
            THEN <<draw_box(coordinates2xy(size, bottom, 0, 0), FALSE,
                            Some(colors.card), Some(colors.main), 8)>>
                 \o (IF Truthy(text)
                     THEN <<write_text(coordinates2xy(size, bottom, 0, 0), text[1])>>
                     ELSE <<>>)
            ELSE <<>>
        title == <<Fx(2), Fx(2), Fx(-2), Fx(4)>>
        title_bar ==
            <<draw_box(coordinates2xy(size, title, 1, 0), TRUE,
                       Some(colors.card), Some(colors.main), 8)>>
            \o CenterTextIf(head1, coordinates2xy(size, title, 0, 0), FALSE)
        info == InfoBarCoordinates(large_image)
        info_bar ==
            <<draw_box(coordinates2xy(size, info, 1, 0), TRUE,
                       Some(colors.card), Some(colors.main), 8)>>
            \o CenterTextIf(head2, coordinates2xy(size, info, 0, 0), FALSE)
        stat == <<Fx(-6), Fx(-3), Fx(-2), Fx(-1)>>
        stats_bar ==
            <<draw_box(coordinates2xy(size, stat, 1, 0), TRUE,
                       Some(colors.card), Some(colors.main), 8)>>
            \o CenterTextIf(stats, coordinates2xy(size, stat, 0, 0), TRUE)
        bottom_text ==
            <<draw_center_text(coordinates2xy(size, <<Fx(1), -3, Fx(-6), -1>>, 0, 0),
                               CAPTION, "small_font", LIGHTGRAY, FALSE)>>
    IN  image \o image_box \o bottom_box \o title_bar \o info_bar
        \o stats_bar \o bottom_text

---------------------------------------------------------------------------
(* __main__                                                                *)

FONTS == <<"/usr/share/fonts/liberation-mono/LiberationMono-Regular.ttf",
           "/usr/share/fonts/truetype/noto/NotoMono-Regular.ttf">>

OUTPUT == "output.jpg"

\* mutant: the last existing path wins
FindFont_last(exists) ==
    IF \E k \in 1..Len(FONTS) : FONTS[k] \in exists
    THEN Some(FONTS[CHOOSE k \in 1..Len(FONTS) :
                        /\ FONTS[k] \in exists
                        /\ \A h \in (k + 1)..Len(FONTS) : FONTS[h] \notin exists])
    ELSE None

\* for font in FONTS: the first path that exists, None when the loop ends
FindFont(exists) ==
    IF \E k \in 1..Len(FONTS) : FONTS[k] \in exists
    THEN Some(FONTS[CHOOSE k \in 1..Len(FONTS) :
                        /\ FONTS[k] \in exists
                        /\ \A h \in 1..(k - 1) : FONTS[h] \notin exists])
    ELSE None

CUSTOM_FONT == "custom.ttf"
ART == "art.png"

\* the paths that may exist before the program starts
Paths == {FONTS[1], FONTS[2], CUSTOM_FONT, ART}

\* the body texts given on the command line: none, empty, blank, one line,
\* two lines around a break token
BodyTexts ==
    {None, Some(<<>>), Some(<<SPACE>>), Some(<<"a", SPACE, "a">>),
     Some(<<"a", SPACE, "\\", "n", SPACE, "a">>)}

Init ==
    /\ pc = "start"
    /\ args \in [color : {"red", "green"},
                 font : {None, Some(""), Some(CUSTOM_FONT)},
                 image : {None, Some(ART)},
                 head1 : {None, Some(""), Some("DRONE")},
                 head2 : {None, Some("ATTACK")},
                 text : BodyTexts,
                 stats : {None, Some("3/4")}]
    /\ fs \in SUBSET Paths
    /\ font_path = NONE
    /\ events = <<>>
    /\ canvas = <<>>
    /\ inp = [fn |-> "main"]
    /\ out = <<>>

\* lines 282-294: the font path is resolved or the process exits with status 1
ResolveFont ==
    /\ pc = "start"
    /\ IF ~TruthyStr(args.font)
       THEN IF FindFont(fs) = None
            THEN pc' = "exit1" /\ UNCHANGED font_path
            ELSE pc' = "font_ok" /\ font_path' = FindFont(fs)[1]
       ELSE IF args.font[1] \notin fs
            THEN pc' = "exit1" /\ UNCHANGED font_path
            ELSE pc' = "font_ok" /\ font_path' = args.font[1]
    /\ UNCHANGED <<args, fs, events, canvas, inp, out>>

\* card = Card(COLORS[args.color], font_path=font_path)
CreateCard ==
    /\ pc = "font_ok"
    /\ pc' = "card"
    /\ events' = Append(events, "Card")
    /\ canvas' = <<[op |-> "new", size |-> DefaultSize,
                    color |-> COLORS[args.color].background,
                    font_path |-> font_path,
                    big_font |-> grid_size,
                    medium_font |-> (10 * grid_size) \div 12,
                    small_font |-> (10 * grid_size) \div 18]>>
    /\ UNCHANGED <<args, fs, font_path, inp, out>>

\* card.draw_frame()
DrawFrame ==
    /\ pc = "card"
    /\ pc' = "framed"
    /\ events' = Append(events, "draw_frame")
    /\ canvas' = canvas \o draw_frame(canvas[1].size, COLORS[args.color])
    /\ UNCHANGED <<args, fs, font_path, inp, out>>

\* card.draw_content(...); Image.open raises when the image cannot be opened
DrawContent ==
    /\ pc = "framed"
    /\ events' = Append(events, "draw_content")
    /\ IF TruthyStr(args.image) /\ args.image[1] \notin fs
       THEN pc' = "error" /\ UNCHANGED canvas
       ELSE /\ pc' = "drawn"
            /\ canvas' = canvas \o draw_content(canvas[1].size, COLORS[args.color],
                                                args.image, args.head1, args.head2,
                                                args.text, args.stats)
    /\ UNCHANGED <<args, fs, font_path, inp, out>>

\* card.save(args.output)
Save ==
    /\ pc = "drawn"
    /\ pc' = "saved"
    /\ events' = Append(events, "save")
    /\ fs' = fs \cup {OUTPUT}
    /\ UNCHANGED <<args, font_path, canvas, inp, out>>

Next == ResolveFont \/ CreateCard \/ DrawFrame \/ DrawContent \/ Save

Spec == Init /\ [][Next]_vars

---------------------------------------------------------------------------
(* Properties of the layout and of the start-up sequence                   *)

Drawn == pc \in {"drawn", "saved"}

\* the operations drawn by draw_content: those after Image.new and draw_frame
Content == SubSeq(canvas, 3, Len(canvas))

OpsOf(kind) == {Content[i] : i \in {j \in 1..Len(Content) : Content[j].op = kind}}

BoxesDrawn == {b.xy : b \in OpsOf("rounded_rectangle")}

Px(a, b, c, d) == <<Fx(a), Fx(b), Fx(c), Fx(d)>>

\* a region of the default canvas as draw_box strokes it with width 8
PlainBox(a, b, c, d) == Outset(coordinates2xy(DefaultSize, Px(a, b, c, d), 0, 0), 8)
BarBox(a, b, c, d) == Outset(coordinates2xy(DefaultSize, Px(a, b, c, d), 1, 0), 8)

\* C1: the presence of body text alone selects the layout.  Without text the
\* image fills (2,4,-2,-6) = pixels (60,120,690,870), the info bar is at
\* (2,-6,-2,-4) and no bottom box or text is drawn; with text the image fills
\* (2,4,-2,23) = pixels (60,120,690,690), the info bar is at (2,23,-2,25) and
\* the bottom box (2,25,-2,-2) is drawn with the wrapped text.
C1_LayoutByText ==
    Drawn =>
        IF args.text \in {None, Some(<<>>)}
        THEN /\ Content[1].xy = Px(60, 120, 690, 870)
             /\ BoxesDrawn = {Outset(Px(60, 120, 690, 870), 8),
                              BarBox(2, 2, -2, 4),
                              BarBox(2, -6, -2, -4),
                              BarBox(-6, -3, -2, -1)}
             /\ Len(Content) - Cardinality(OpsOf("center_text")) = 5
             /\ OpsOf("text") = {}
        ELSE /\ Content[1].xy = Px(60, 120, 690, 690)
             /\ BoxesDrawn = {Outset(Px(60, 120, 690, 690), 8),
                              PlainBox(2, 25, -2, -2),
                              BarBox(2, 2, -2, 4),
                              BarBox(2, 23, -2, 25),
                              BarBox(-6, -3, -2, -1)}
             /\ Len(Content) - Cardinality(OpsOf("center_text")) = 7
             /\ OpsOf("text") =
                    {[op |-> "text", at |-> <<Fx(60) + CharW, Fx(750) + CharW>>,
                      text |-> Wrap(Split(Strip(args.text[1]), SPACE),
                                    Fx(690 - 60) - 2 * CharW)]}

C1_Witness ==
    /\ Drawn
    /\ args.text = Some(<<"a", SPACE, "\\", "n", SPACE, "a">>)
    /\ args.image = Some(ART)
    /\ Content[1] = paste_image(Px(60, 120, 690, 690), ART)
    /\ \E t \in OpsOf("text") : t.text = <<"a", NL, "a">>

CenterTexts(region, horizontal) ==
    {t.text : t \in {u \in OpsOf("center_text") :
                        /\ u.xy = coordinates2xy(DefaultSize, region, 0, 0)
                        /\ u.font = "big_font"
                        /\ u.horizontal = horizontal}}

Given(field) == IF TruthyStr(field) THEN {field[1]} ELSE {}

\* C9: draw_content fails only when a named image cannot be opened; whenever
\* it completes, the title, info and stats bar boxes, the outline of the image
\* and the caption are drawn, each of head1, head2, stats and the body text is
\* drawn exactly when it is given, and the image area holds the image when
\* one is given and the noisy rectangle otherwise.
C9_OptionalContent ==
    /\ pc = "error" => (TruthyStr(args.image) /\ args.image[1] \notin fs)
    /\ (pc \in {"drawn", "saved"} /\ TruthyStr(args.image)) => args.image[1] \in fs
    /\ Drawn =>
        LET large_image == ~Truthy(args.text)
            info == IF large_image THEN Px(2, -6, -2, -4) ELSE Px(2, 23, -2, 25)
        IN  /\ {BarBox(2, 2, -2, 4), BarBox(-6, -3, -2, -1),
                Outset(Content[1].xy, 8),
                Outset(coordinates2xy(DefaultSize, info, 1, 0), 8)}
                   \subseteq BoxesDrawn
            /\ \E t \in OpsOf("center_text") :
                   t.text = CAPTION /\ t.font = "small_font"
            /\ CenterTexts(Px(2, 2, -2, 4), FALSE) = Given(args.head1)
            /\ CenterTexts(info, FALSE) = Given(args.head2)
            /\ CenterTexts(Px(-6, -3, -2, -1), TRUE) = Given(args.stats)
            /\ Cardinality(OpsOf("center_text"))
                   = 1 + Cardinality(Given(args.head1))
                       + Cardinality(Given(args.head2))
                       + Cardinality(Given(args.stats))
            /\ (OpsOf("text") # {}) <=> Truthy(args.text)
            /\ IF TruthyStr(args.image)
               THEN Content[1].op = "paste_image"
                    /\ Content[1].image_path = args.image[1]
               ELSE Content[1].op = "paste_noisy_rectangle"

C9_Witness ==
    /\ pc = "drawn"
    /\ args.image = None
    /\ args.head1 = None
    /\ args.head2 = None
    /\ args.text = None
    /\ args.stats = None
    /\ Len(Content) = 6
    /\ Cardinality(OpsOf("center_text")) = 1

IsPrefix(s, t) == Len(s) <= Len(t) /\ s = SubSeq(t, 1, Len(s))

\* C10: without --font the first existing path of FONTS is used; without
\* --font and without an existing path of FONTS the process exits with status
\* 1 before a Card is created, nothing is drawn and no output file is written;
\* a run that saves ran Card, draw_frame, draw_content, save in this order,
\* each exactly once.
C10_FontThenSinglePass ==
    /\ (pc # "start" /\ ~TruthyStr(args.font) /\ font_path # NONE)
           => /\ font_path \in fs
              /\ \E k \in 1..Len(FONTS) :
                     /\ font_path = FONTS[k]
                     /\ \A h \in 1..(k - 1) : FONTS[h] \notin fs
    /\ (pc # "start" /\ ~TruthyStr(args.font)
                     /\ \A k \in 1..Len(FONTS) : FONTS[k] \notin fs)
           => /\ pc = "exit1"
              /\ events = <<>>
              /\ canvas = <<>>
              /\ OUTPUT \notin fs
    /\ pc = "exit1" => (events = <<>> /\ OUTPUT \notin fs)
    /\ IsPrefix(events, <<"Card", "draw_frame", "draw_content", "save">>)
    /\ (pc = "saved" \/ OUTPUT \in fs)
           => events = <<"Card", "draw_frame", "draw_content", "save">>

C10_Witness ==
    /\ pc = "saved"
    /\ args.font = None
    /\ FONTS[1] \notin fs
    /\ font_path = FONTS[2]
    /\ OUTPUT \in fs

====
